---- MODULE Spec2Model ----
(***************************************************************************)
(* fpe-demo-mcp: the HTTP session registry (src/http-server.ts), the       *)
(* authorization gate of the HTTP and the stdio server, AuthService and    *)
(* the tool handlers in front of FPEService.                               *)
(*                                                                         *)
(* Strings are sequences of atoms.  An atom is a run of characters that    *)
(* the code never looks inside: the word "Bearer", one space, one tab, the *)
(* text of a secret, the text of a token.  startsWith, slice, trim and     *)
(* split(' ') are computed on these sequences as the code computes them on *)
(* characters.                                                             *)
(***************************************************************************)
EXTENDS Integers, Sequences, FiniteSets, TLC

VARIABLES
    env,          \* process.env: AUTH_MODE, AUTH_TOKEN, AUTH_JWT_SECRET, AUTH_JWT_ISS, AUTH_JWT_AUD
    jwt,          \* the header and claims of the token whose text is the atom "JWT"
    ff3Fault,     \* the ff3 cipher throws an error that is no validation of its input
    now,          \* the clock, in seconds
    transports,   \* http-server.ts: const transports, session id -> transport (0: no entry)
    tr,           \* the StreamableHTTPServerTransport objects created so far
    authorized,   \* history: the transport whose tool call passed the gate last (0: none yet)
    last          \* history: the request handled last and what the server answered

vars == <<env, jwt, ff3Fault, now, transports, tr, authorized, last>>

-----------------------------------------------------------------------------
(* Bounds *)

MaxCredLen == 4        \* atoms in a credential string
MaxTransports == 2     \* transports (initialize requests) per run
MaxSessionIds == 2     \* distinct values the id generator can return
MaxTime == 1           \* clock ticks per run
MaxExcess == 1         \* digits beyond MAX_LENGTH in a value

-----------------------------------------------------------------------------
(* Strings *)

\* JavaScript undefined / null: a value that is no string over the atoms.
Undefined == <<"#undefined">>

\* A JSON value that is no string and is truthy, such as the number 123456.
NotAString == <<"#number">>

WhiteSpace == {" ", "\t"}

startsWith(s, prefix) ==
    /\ s # Undefined
    /\ Len(s) >= Len(prefix)
    /\ SubSeq(s, 1, Len(prefix)) = prefix

slice(s, n) == SubSeq(s, n + 1, Len(s))

RECURSIVE trimStart(_)
trimStart(s) ==
    IF s # <<>> /\ Head(s) \in WhiteSpace THEN trimStart(Tail(s)) ELSE s

RECURSIVE trimEnd(_)
trimEnd(s) ==
    IF s # <<>> /\ s[Len(s)] \in WhiteSpace
    THEN trimEnd(SubSeq(s, 1, Len(s) - 1))
    ELSE s

trim(s) == trimEnd(trimStart(s))

\* s.split(' '): the pieces between single spaces, empty pieces kept.
RECURSIVE split(_)
split(s) ==
    IF \A i \in 1..Len(s) : s[i] # " "
    THEN <<s>>
    ELSE LET i == CHOOSE k \in 1..Len(s) :
                      s[k] = " " /\ \A j \in 1..(k - 1) : s[j] # " "
         IN  <<SubSeq(s, 1, i - 1)>> \o split(SubSeq(s, i + 1, Len(s)))

toLowerCase(s) == [i \in 1..Len(s) |-> IF s[i] \in {"Bearer", "BEARER"} THEN "bearer" ELSE s[i]]

\* "Bearer " as atoms; "Bearer ".length is Len(BearerPrefix).
BearerPrefix == <<"Bearer", " ">>

-----------------------------------------------------------------------------
(* Configuration *)

\* A default that enforces when no mode is configured.
AUTH_MODEUnsetIsProduction == IF env.AUTH_MODE = "" THEN "production" ELSE env.AUTH_MODE

\* const AUTH_MODE = process.env.AUTH_MODE || "authless"
AUTH_MODE == IF env.AUTH_MODE = "" THEN "authless" ELSE env.AUTH_MODE

\* process.env.AUTH_TOKEN || "demo-secret", as a string
shared == IF env.AUTH_TOKEN = "" THEN <<"demo-secret">> ELSE <<env.AUTH_TOKEN>>

\* AuthService.secret, the constructor argument
secret == shared

\* A constructor that ignores AUTH_JWT_SECRET.
jwtSecretAlwaysShared == secret

\* AuthService.jwtSecret = process.env.AUTH_JWT_SECRET || secret
jwtSecret == IF env.AUTH_JWT_SECRET = "" THEN secret ELSE <<env.AUTH_JWT_SECRET>>

clockTolerance == 5

-----------------------------------------------------------------------------
(* AuthService *)

\* A verification without clock tolerance.
jwtVerifiesNoTolerance(token) ==
    /\ token = <<"JWT">>
    /\ jwt.alg = "HS256"
    /\ <<jwt.key>> = jwtSecret
    /\ \A nbf \in jwt.nbf : ~(nbf > now)
    /\ \A exp \in jwt.exp : ~(now >= exp)
    /\ (env.AUTH_JWT_ISS # "" => jwt.iss = env.AUTH_JWT_ISS)
    /\ (env.AUTH_JWT_AUD # "" => jwt.aud = env.AUTH_JWT_AUD)

\* A verification that does not look at the issuer.
jwtVerifiesAnyIssuer(token) ==
    /\ token = <<"JWT">>
    /\ jwt.alg = "HS256"
    /\ <<jwt.key>> = jwtSecret
    /\ \A nbf \in jwt.nbf : ~(nbf > now + clockTolerance)
    /\ \A exp \in jwt.exp : ~(now >= exp + clockTolerance)
    /\ (env.AUTH_JWT_AUD # "" => jwt.aud = env.AUTH_JWT_AUD)

\* A verification that accepts whatever algorithm the token declares.
jwtVerifiesAnyAlgorithm(token) ==
    /\ token = <<"JWT">>
    /\ (jwt.alg # "none" => <<jwt.key>> = jwtSecret)
    /\ \A nbf \in jwt.nbf : ~(nbf > now + clockTolerance)
    /\ \A exp \in jwt.exp : ~(now >= exp + clockTolerance)
    /\ (env.AUTH_JWT_ISS # "" => jwt.iss = env.AUTH_JWT_ISS)
    /\ (env.AUTH_JWT_AUD # "" => jwt.aud = env.AUTH_JWT_AUD)

\* jwt.verify(token, jwtSecret, {algorithms: ['HS256'], issuer?, audience?,
\* clockTolerance: 5}) does not throw: the text is a token, its algorithm is
\* allowed, its signature was made with the key, it is inside its time window
\* and it carries the configured issuer and audience.  jwt.exp and jwt.nbf are
\* sets: empty when the token has no such claim, else the one value.
jwtVerifies(token) ==
    /\ token = <<"JWT">>
    /\ jwt.alg = "HS256"
    /\ <<jwt.key>> = jwtSecret
    /\ \A nbf \in jwt.nbf : ~(nbf > now + clockTolerance)
    /\ \A exp \in jwt.exp : ~(now >= exp + clockTolerance)
    /\ (env.AUTH_JWT_ISS # "" => jwt.iss = env.AUTH_JWT_ISS)
    /\ (env.AUTH_JWT_AUD # "" => jwt.aud = env.AUTH_JWT_AUD)

\* A verifyJwt whose catch block hands the error of jwt.verify on.
verifyJwtRethrows(token) == IF jwtVerifies(token) THEN "payload" ELSE "JsonWebTokenError"

\* verifyJwt: the payload, or null when jwt.verify throws.
verifyJwt(token) == IF jwtVerifies(token) THEN "payload" ELSE "null"

\* An extractBearer that takes the second word whatever the scheme.
extractBearerAnyScheme(authHeader) ==
    IF authHeader = Undefined \/ authHeader = <<>>
    THEN Undefined
    ELSE LET parts == split(authHeader)
             token == IF Len(parts) >= 2 THEN parts[2] ELSE Undefined
         IN  IF token = Undefined \/ token = <<>> THEN Undefined ELSE token

\* An extractBearer that returns all that follows the scheme, trimmed.
extractBearerRemainder(authHeader) ==
    IF authHeader = Undefined \/ authHeader = <<>>
    THEN Undefined
    ELSE LET scheme == split(authHeader)[1]
             token  == trim(slice(authHeader, Len(scheme)))
         IN  IF token = <<>> \/ toLowerCase(scheme) # <<"bearer">>
             THEN Undefined
             ELSE token

extractBearer(authHeader) ==
    IF authHeader = Undefined \/ authHeader = <<>>
    THEN Undefined
    ELSE LET parts  == split(authHeader)
             scheme == parts[1]
             token  == IF Len(parts) >= 2 THEN parts[2] ELSE Undefined
         IN  IF token = Undefined \/ token = <<>> \/ toLowerCase(scheme) # <<"bearer">>
             THEN Undefined
             ELSE token

\* An AuthService that treats a mode it does not know as production mode.
verifyAuthorizationHeaderUnknownAsProduction(authHeader) ==
    LET authMode == IF env.AUTH_MODE = "" THEN "authless" ELSE env.AUTH_MODE
        token    == extractBearer(authHeader)
    IN  IF authMode = "authless" THEN "true"
        ELSE IF token = Undefined THEN "false"
        ELSE IF authMode = "debug" THEN "true"
        ELSE IF authMode = "test"
             THEN IF verifyJwt(token) = "payload" THEN "payload"
                  ELSE IF token = secret THEN "true" ELSE "false"
        ELSE verifyJwt(token)

\* An AuthService that accepts the shared secret in production mode as well.
verifyAuthorizationHeaderSharedInProduction(authHeader) ==
    LET authMode == IF env.AUTH_MODE = "" THEN "authless" ELSE env.AUTH_MODE
        token    == extractBearer(authHeader)
    IN  IF authMode = "authless" THEN "true"
        ELSE IF token = Undefined THEN "false"
        ELSE IF authMode = "debug" THEN "true"
        ELSE IF authMode = "test" \/ authMode = "production"
             THEN IF verifyJwt(token) = "payload" THEN "payload"
                  ELSE IF token = secret THEN "true" ELSE "false"
        ELSE "false"

\* The payload ("payload"), true, false or null.
verifyAuthorizationHeader(authHeader) ==
    LET authMode == IF env.AUTH_MODE = "" THEN "authless" ELSE env.AUTH_MODE
        token    == extractBearer(authHeader)
    IN  IF authMode = "authless" THEN "true"
        ELSE IF token = Undefined THEN "false"
        ELSE IF authMode = "debug" THEN "true"
        ELSE IF authMode = "test"
             THEN IF verifyJwt(token) = "payload" THEN "payload"
                  ELSE IF token = secret THEN "true" ELSE "false"
        ELSE IF authMode = "production" THEN verifyJwt(token)
        ELSE "false"

Truthy(v) == v \in {"true", "payload"}

-----------------------------------------------------------------------------
(* The authorization gates.  The result is "ok" or the message of the      *)
(* McpError(ErrorCode.InvalidRequest, ...) thrown.                          *)

UnauthorizedTest == "Unauthorized (test mode: need valid JWT or AUTH_TOKEN)"
UnauthorizedProduction == "Unauthorized (production mode: Bearer JWT required)"

\* A gate whose test mode takes the shared secret only.
authorizeOrThrowTestSharedOnly(token) ==
    IF AUTH_MODE = "authless" \/ AUTH_MODE = "debug" THEN "ok"
    ELSE LET isBearer    == startsWith(token, BearerPrefix)
             bearerValue == IF isBearer /\ token # <<>>
                            THEN trim(slice(token, Len(BearerPrefix)))
                            ELSE Undefined
             jwtPayload  == IF isBearer /\ token # <<>>
                            THEN verifyAuthorizationHeader(token)
                            ELSE "null"
         IN  IF AUTH_MODE = "test"
             THEN LET sharedOk == (IF bearerValue # Undefined THEN bearerValue ELSE token) = shared
                  IN  IF ~sharedOk THEN UnauthorizedTest ELSE "ok"
             ELSE IF ~Truthy(jwtPayload) THEN UnauthorizedProduction ELSE "ok"

\* A gate that trims a credential without the Bearer prefix too.
authorizeOrThrowTrimBare(token) ==
    IF AUTH_MODE = "authless" \/ AUTH_MODE = "debug" THEN "ok"
    ELSE LET isBearer    == startsWith(token, BearerPrefix)
             bearerValue == IF isBearer /\ token # <<>>
                            THEN trim(slice(token, Len(BearerPrefix)))
                            ELSE Undefined
             jwtPayload  == IF isBearer /\ token # <<>>
                            THEN verifyAuthorizationHeader(token)
                            ELSE "null"
         IN  IF AUTH_MODE = "test"
             THEN LET sharedOk == (IF bearerValue # Undefined THEN bearerValue ELSE trim(token)) = shared
                  IN  IF ~Truthy(jwtPayload) /\ ~sharedOk THEN UnauthorizedTest ELSE "ok"
             ELSE IF ~Truthy(jwtPayload) THEN UnauthorizedProduction ELSE "ok"

\* A gate that lets only authless mode through unchecked: debug mode asks
\* AuthService, which wants a bearer token.
authorizeOrThrowDebugChecks(token) ==
    IF AUTH_MODE = "authless" THEN "ok"
    ELSE IF Truthy(verifyAuthorizationHeader(token)) THEN "ok"
    ELSE UnauthorizedProduction

\* http-server.ts
authorizeOrThrow(token) ==
    IF AUTH_MODE = "authless" \/ AUTH_MODE = "debug" THEN "ok"
    ELSE LET isBearer    == startsWith(token, BearerPrefix)
             bearerValue == IF isBearer /\ token # <<>>
                            THEN trim(slice(token, Len(BearerPrefix)))
                            ELSE Undefined
             jwtPayload  == IF isBearer /\ token # <<>>
                            THEN verifyAuthorizationHeader(token)
                            ELSE "null"
         IN  IF AUTH_MODE = "test"
             THEN LET sharedOk == (IF bearerValue # Undefined THEN bearerValue ELSE token) = shared
                  IN  IF ~Truthy(jwtPayload) /\ ~sharedOk THEN UnauthorizedTest ELSE "ok"
             ELSE IF ~Truthy(jwtPayload) THEN UnauthorizedProduction ELSE "ok"

\* stdio-server.ts: the token is args.user_token ?? ''
stdioAuthorizeOrThrow(user_token) ==
    LET token == IF user_token = Undefined THEN <<>> ELSE user_token
    IN  IF AUTH_MODE = "authless" \/ AUTH_MODE = "debug" THEN "ok"
        ELSE LET maybeJwt == IF startsWith(token, BearerPrefix)
                             THEN verifyAuthorizationHeader(token)
                             ELSE "null"
             IN  IF AUTH_MODE = "test"
                 THEN LET sharedOk == token = shared
                      IN  IF ~Truthy(maybeJwt) /\ ~sharedOk THEN UnauthorizedTest ELSE "ok"
                 ELSE IF ~Truthy(maybeJwt) THEN UnauthorizedProduction ELSE "ok"

-----------------------------------------------------------------------------
(* FPEService.  A value is a string over digit characters, other           *)
(* characters and the atom "ENC_FPE:" (the 8 characters of the tag).       *)
(* The result of encrypt / decrypt is a record: the value returned or the  *)
(* McpError thrown, and how often the FF3 cipher was invoked.              *)

RADIX == 10
MIN_LENGTH == 6
MAX_LENGTH == 56

DigitSeq == <<"0", "1", "2", "3", "4", "5", "6", "7", "8", "9">>
Digits == {DigitSeq[i] : i \in 1..RADIX}
DigitValue(d) == (CHOOSE i \in 1..RADIX : DigitSeq[i] = d) - 1

Tag == <<"ENC_FPE:">>

isEncrypted(value) == startsWith(value, Tag)

\* A normalization that removes separators only.
normalizeDigitsKeepsLetters(value) == SelectSeq(value, LAMBDA c : c # "-")

\* value.replace(/\D/g, '')
normalizeDigits(value) == SelectSeq(value, LAMBDA c : c \in Digits)

tag(encryptedDigits) == Tag \o encryptedDigits

\* The FF3 cipher of the ff3 package, radix 10: a length-preserving
\* permutation of the digit strings of 6 to 56 digits, which throws on any
\* other input.  The permutation stands for the cipher's arithmetic.
FF3InDomain(digits) ==
    /\ Len(digits) >= MIN_LENGTH
    /\ Len(digits) <= MAX_LENGTH
    /\ \A i \in 1..Len(digits) : digits[i] \in Digits

\* cipher.encrypt / cipher.decrypt throw: the input is outside the domain, or
\* the package fails for a reason of its own.
FF3Throws(digits) == ~FF3InDomain(digits) \/ ff3Fault

FF3Encrypt(digits) ==
    [i \in 1..Len(digits) |->
        DigitSeq[((DigitValue(digits[Len(digits) + 1 - i]) + i) % RADIX) + 1]]

\* A backward operation that undoes the shift but not the order.
FF3DecryptKeepsOrder(digits) ==
    [i \in 1..Len(digits) |->
        DigitSeq[((DigitValue(digits[i]) + RADIX * MAX_LENGTH - i) % RADIX) + 1]]

FF3Decrypt(digits) ==
    [i \in 1..Len(digits) |->
        DigitSeq[((DigitValue(digits[Len(digits) + 1 - i]) + RADIX * MAX_LENGTH
                   - (Len(digits) + 1 - i)) % RADIX) + 1]]

\* The TypeError of calling a string method on a value that is no string.
TypeErrorMessage == "value.replace is not a function"

Returned(v, n) == [ok |-> TRUE, code |-> "none", message |-> "none", value |-> v, cipher |-> n]
Thrown(c, m, n) == [ok |-> FALSE, code |-> c, message |-> m, value |-> Undefined, cipher |-> n]

\* An encrypt without the check of the number of digits.
encryptNoLengthCheck(plaintext) ==
    IF plaintext = Undefined \/ plaintext = <<>>
    THEN Thrown("InvalidParams", "Cannot encrypt empty value", 0)
    ELSE IF isEncrypted(plaintext) THEN Returned(plaintext, 0)
    ELSE IF plaintext = NotAString THEN Thrown("TypeError", TypeErrorMessage, 0)
    ELSE LET digits == normalizeDigits(plaintext)
         IN  IF digits = <<>> \/ \E i \in 1..Len(digits) : digits[i] \notin Digits
             THEN Thrown("InvalidParams", "FPE radix-10 requires digits only", 0)
             ELSE IF FF3Throws(digits)
             THEN Thrown("InvalidParams", "FPE encryption failed", 1)
             ELSE Returned(tag(FF3Encrypt(digits)), 1)

\* An encrypt without the guard against tagged input.
encryptNoGuard(plaintext) ==
    IF plaintext = Undefined \/ plaintext = <<>>
    THEN Thrown("InvalidParams", "Cannot encrypt empty value", 0)
    ELSE IF plaintext = NotAString THEN Thrown("TypeError", TypeErrorMessage, 0)
    ELSE LET digits == normalizeDigits(plaintext)
         IN  IF digits = <<>> \/ \E i \in 1..Len(digits) : digits[i] \notin Digits
             THEN Thrown("InvalidParams", "FPE radix-10 requires digits only", 0)
             ELSE IF Len(digits) < MIN_LENGTH \/ Len(digits) > MAX_LENGTH
             THEN Thrown("InvalidParams", "FPE length must be 6-56 digits", 0)
             ELSE IF FF3Throws(digits)
             THEN Thrown("InvalidParams", "FPE encryption failed", 1)
             ELSE Returned(tag(FF3Encrypt(digits)), 1)

encrypt(plaintext) ==
    IF plaintext = Undefined \/ plaintext = <<>>
    THEN Thrown("InvalidParams", "Cannot encrypt empty value", 0)
    ELSE IF isEncrypted(plaintext) THEN Returned(plaintext, 0)
    ELSE IF plaintext = NotAString THEN Thrown("TypeError", TypeErrorMessage, 0)
    ELSE LET digits == normalizeDigits(plaintext)
         IN  IF digits = <<>> \/ \E i \in 1..Len(digits) : digits[i] \notin Digits
             THEN Thrown("InvalidParams", "FPE radix-10 requires digits only", 0)
             ELSE IF Len(digits) < MIN_LENGTH \/ Len(digits) > MAX_LENGTH
             THEN Thrown("InvalidParams", "FPE length must be 6-56 digits", 0)
             ELSE IF FF3Throws(digits)
             THEN Thrown("InvalidParams", "FPE encryption failed", 1)
             ELSE Returned(tag(FF3Encrypt(digits)), 1)

\* A decrypt without the digits-only test of the tagged text.
decryptNoFormatCheck(encrypted) ==
    IF encrypted = Undefined \/ encrypted = <<>>
    THEN Thrown("InvalidParams", "Cannot decrypt empty value", 0)
    ELSE LET encryptedDigits == IF isEncrypted(encrypted) THEN slice(encrypted, Len(Tag)) ELSE encrypted
         IN  IF FF3Throws(encryptedDigits)
             THEN Thrown("InvalidParams", "FPE decryption failed", 1)
             ELSE Returned(FF3Decrypt(encryptedDigits), 1)

decrypt(encrypted) ==
    IF encrypted = Undefined \/ encrypted = <<>>
    THEN Thrown("InvalidParams", "Cannot decrypt empty value", 0)
    ELSE IF ~isEncrypted(encrypted)
    THEN Thrown("InvalidParams", "Value does not appear to be encrypted (missing ENC_FPE: prefix)", 0)
    ELSE LET encryptedDigits == slice(encrypted, Len(Tag))
         IN  IF encryptedDigits = <<>> \/ \E i \in 1..Len(encryptedDigits) : encryptedDigits[i] \notin Digits
             THEN Thrown("InvalidParams", "Invalid encrypted format - expected digits only after ENC_FPE:", 0)
             ELSE IF FF3Throws(encryptedDigits)
             THEN Thrown("InvalidParams", "FPE decryption failed", 1)
             ELSE Returned(FF3Decrypt(encryptedDigits), 1)

-----------------------------------------------------------------------------
(* Tool handlers.  The outcome of a call: the stage the handler ended in   *)
(* ("authorize", "validate", "transform" or "done"), the code and message  *)
(* of the McpError thrown ("none" on success), the value returned and how  *)
(* often the FF3 cipher was invoked.                                       *)

Tools == {"fpe_encrypt", "fpe_decrypt"}

Outcome(stage, r) ==
    [stage |-> stage, code |-> r.code, message |-> r.message, value |-> r.value, cipher |-> r.cipher]

Call(tool, value, user_token, headerToken, o) ==
    [tool |-> tool, value |-> value, user_token |-> user_token,
     headerToken |-> headerToken, stage |-> o.stage, code |-> o.code,
     message |-> o.message, result |-> o.value, cipher |-> o.cipher]

MissingValue == Thrown("InvalidParams", "Missing required parameter: value", 0)

\* A transform that calls the service a second time when the cipher failed.
transformRetries(tool, value) ==
    LET r == IF tool = "fpe_encrypt" THEN encrypt(value) ELSE decrypt(value)
    IN  IF r.ok \/ r.cipher = 0 THEN r ELSE [r EXCEPT !.cipher = r.cipher + r.cipher]

transform(tool, value) == IF tool = "fpe_encrypt" THEN encrypt(value) ELSE decrypt(value)

\* Handlers that pass the value to the service unchecked.
validateAndTransformNoCheck(tool, value) ==
    LET r == transform(tool, value)
    IN  Outcome(IF r.ok THEN "done" ELSE "transform", r)

\* Both handlers after the gate: if (!value) throw InvalidParams; then
\* fpe.encrypt(value) / fpe.decrypt(value).
validateAndTransform(tool, value) ==
    IF value = Undefined \/ value = <<>> THEN Outcome("validate", MissingValue)
    ELSE LET r == transform(tool, value)
         IN  Outcome(IF r.ok THEN "done" ELSE "transform", r)

\* A denial reported under the code of a bad argument.
DeniedAsInvalidParams(message) == Outcome("authorize", Thrown("InvalidParams", message, 0))

Denied(message) == Outcome("authorize", Thrown("InvalidRequest", message, 0))

\* A handler that checks the value before the credential.
httpToolHandlerValidateFirst(tool, value, user_token, headerToken) ==
    LET token == IF headerToken # Undefined /\ headerToken # <<>> THEN headerToken ELSE user_token
        auth  == authorizeOrThrow(token)
    IN  IF value = Undefined \/ value = <<>> THEN Outcome("validate", MissingValue)
        ELSE IF auth # "ok" THEN Denied(auth)
        ELSE validateAndTransform(tool, value)

\* A handler that prefers the user_token argument to the _meta value.
httpToolHandlerInBandFirst(tool, value, user_token, headerToken) ==
    LET token == IF user_token # Undefined /\ user_token # <<>> THEN user_token ELSE headerToken
        auth  == authorizeOrThrow(token)
    IN  IF auth # "ok" THEN Denied(auth) ELSE validateAndTransform(tool, value)

\* http-server.ts, registerTool("fpe_encrypt" / "fpe_decrypt") handlers
httpToolHandler(tool, value, user_token, headerToken) ==
    LET token == IF headerToken # Undefined /\ headerToken # <<>> THEN headerToken ELSE user_token
        auth  == authorizeOrThrow(token)
    IN  IF auth # "ok" THEN Denied(auth) ELSE validateAndTransform(tool, value)

McpErrorCodes == {"InvalidRequest", "InvalidParams", "InternalError", "MethodNotFound"}

\* stdio-server.ts, the catch block of the CallToolRequestSchema handler: an
\* McpError is rethrown unchanged; another error whose message matches
\* /FPE radix-10 requires|FPE length must be/ becomes InvalidParams with that
\* message, and any other becomes InternalError with the message behind
\* 'Tool execution failed: '.
stdioCatch(o) ==
    IF o.code = "none" \/ o.code \in McpErrorCodes THEN o
    ELSE IF o.message \in {"FPE radix-10 requires digits only", "FPE length must be 6-56 digits"}
    THEN [o EXCEPT !.code = "InvalidParams"]
    ELSE [o EXCEPT !.code = "InternalError", !.message = "Tool execution failed: " \o o.message]

\* stdio-server.ts, the CallToolRequestSchema handler.  The arguments are
\* not checked against the input schema: value can be any JSON value.
stdioToolHandler(tool, value, user_token) ==
    LET auth == stdioAuthorizeOrThrow(user_token)
    IN  IF auth # "ok" THEN Denied(auth) ELSE stdioCatch(validateAndTransform(tool, value))

-----------------------------------------------------------------------------
(* The HTTP server: the transports map and the /mcp routes.                *)

SessionIds == 1..MaxSessionIds
Transports == 1..MaxTransports

\* A transport object: status "none" (not created), "connecting" (created,
\* the POST handler awaits server.connect), "open" (initialized) or "closed";
\* sessionId 0 is transport.sessionId undefined.
NoTransport == [status |-> "none", sessionId |-> 0]

NoCall == [tool |-> "none"]

NoRequest ==
    [kind |-> "none", sessionId |-> 0, body |-> "none", status |-> 0,
     message |-> "none", transport |-> 0, call |-> NoCall]

Response(kind, sid, body, status, message, t, call) ==
    [kind |-> kind, sessionId |-> sid, body |-> body, status |-> status,
     message |-> message, transport |-> t, call |-> call]

\* sessionId && transports[sessionId]
hasSession(sid) == sid # 0 /\ transports[sid] # 0

\* sessionIdGenerator: () => randomUUID(), the values it can return
sessionIdGenerator == SessionIds

\* onsessioninitialized: transports[sessionId] = transport
onsessioninitialized(sessionId, t) == [transports EXCEPT ![sessionId] = t]

\* An onclose handler that leaves the entry in the map.
oncloseKeepsEntry(t) == transports

\* transport.onclose: if (transport.sessionId) delete transports[transport.sessionId]
onclose(t) ==
    IF tr[t].sessionId # 0
    THEN [transports EXCEPT ![tr[t].sessionId] = 0]
    ELSE transports

\* A route that asks the gate before it creates a session; an initialize
\* request has no tool arguments, so no credential reaches the gate.
PostInitializeAuthorizes ==
    /\ IF authorizeOrThrow(Undefined) = "ok"
       THEN /\ \E t \in Transports :
                  /\ tr[t].status = "none"
                  /\ \A u \in 1..(t - 1) : tr[u].status # "none"
                  /\ tr' = [tr EXCEPT ![t].status = "connecting"]
            /\ last' = Response("POST", 0, "initialize", 0, "none", 0, NoCall)
       ELSE /\ tr' = tr
            /\ last' = Response("POST", 0, "initialize", 401, authorizeOrThrow(Undefined), 0, NoCall)
    /\ UNCHANGED <<env, jwt, ff3Fault, now, transports, authorized>>

\* POST /mcp without a session id and with an initialize body: a new
\* transport is created, onclose is set, and the handler awaits
\* server.connect(transport).  The route reads the Mcp-Session-Id header and
\* the body, and no credential.
PostInitialize ==
    /\ \E t \in Transports :
          /\ tr[t].status = "none"
          /\ \A u \in 1..(t - 1) : tr[u].status # "none"
          /\ tr' = [tr EXCEPT ![t].status = "connecting"]
    /\ last' = Response("POST", 0, "initialize", 0, "none", 0, NoCall)
    /\ UNCHANGED <<env, jwt, ff3Fault, now, transports, authorized>>

\* The same handler after the await: transport.handleRequest(req, res, body).
\* The transport generates the session id, becomes initialized and calls
\* onsessioninitialized.  (Requests are well-formed for the transport: its
\* own checks of the Accept, Content-Type and protocol version headers are
\* not part of this server.)
Connected(t, sessionId) ==
    /\ tr[t].status = "connecting"
    /\ tr' = [tr EXCEPT ![t] = [status |-> "open", sessionId |-> sessionId]]
    /\ transports' = onsessioninitialized(sessionId, t)
    /\ last' = Response("POST", 0, "initialize", 200, "none", t, NoCall)
    /\ UNCHANGED <<env, jwt, ff3Fault, now, authorized>>

\* POST /mcp with a registered session id and a tools/call body: the
\* transport found in the map delivers the call to the tool handler of the
\* session's server.
\* A server that remembers the session whose call passed the gate last and
\* does not check that session's next call.
sessionToolCallCached(t, tool, value, user_token, headerToken) ==
    IF authorized = t
    THEN validateAndTransform(tool, value)
    ELSE httpToolHandler(tool, value, user_token, headerToken)

sessionToolCall(t, tool, value, user_token, headerToken) ==
    httpToolHandler(tool, value, user_token, headerToken)

PostToolCall(sid, tool, value, user_token, headerToken) ==
    /\ hasSession(sid)
    /\ LET t == transports[sid]
           o == sessionToolCall(t, tool, value, user_token, headerToken)
       IN  /\ authorized' = IF o.stage # "authorize" THEN t ELSE authorized
           /\ last' = Response("POST", sid, "tools/call", 200, "none", t,
                         Call(tool, value, user_token, headerToken, o))
    /\ UNCHANGED <<env, jwt, ff3Fault, now, transports, tr>>

\* POST /mcp with a registered session id and another body: a second
\* initialize is refused by the transport, any other request is served.
PostOther(sid, body) ==
    /\ hasSession(sid)
    /\ LET t == transports[sid]
       IN  last' = IF body = "initialize"
                   THEN Response("POST", sid, body, 400, "Invalid Request: Server already initialized", t, NoCall)
                   ELSE Response("POST", sid, body, 200, "none", t, NoCall)
    /\ UNCHANGED <<env, jwt, ff3Fault, now, transports, tr, authorized>>

\* A route that starts a new session for an initialize body even when the
\* request carries a session id that is not registered.
PostInvalidInitializes(sid, body) ==
    /\ ~hasSession(sid)
    /\ ~(sid = 0 /\ body = "initialize")
    /\ IF body = "initialize" /\ \E t \in Transports : tr[t].status = "none"
       THEN /\ \E t \in Transports :
                  /\ tr[t].status = "none"
                  /\ \A u \in 1..(t - 1) : tr[u].status # "none"
                  /\ tr' = [tr EXCEPT ![t].status = "connecting"]
            /\ last' = Response("POST", sid, body, 0, "none", 0, NoCall)
       ELSE /\ tr' = tr
            /\ last' = Response("POST", sid, body, 400, "Bad Request: No valid session ID provided", 0, NoCall)
    /\ UNCHANGED <<env, jwt, ff3Fault, now, transports, authorized>>

\* POST /mcp, the else branch.
PostInvalid(sid, body) ==
    /\ ~hasSession(sid)
    /\ ~(sid = 0 /\ body = "initialize")
    /\ last' = Response("POST", sid, body, 400, "Bad Request: No valid session ID provided", 0, NoCall)
    /\ UNCHANGED <<env, jwt, ff3Fault, now, transports, tr, authorized>>

\* A GET route that drops the entry of the session it resolved.
GetEvicts(sid) ==
    /\ last' = IF sid = 0 \/ transports[sid] = 0
               THEN Response("GET", sid, "none", 400, "Session not found", 0, NoCall)
               ELSE Response("GET", sid, "none", 200, "none", transports[sid], NoCall)
    /\ transports' = [k \in SessionIds |-> IF k = sid THEN 0 ELSE transports[k]]
    /\ UNCHANGED <<env, jwt, ff3Fault, now, tr, authorized>>

\* GET /mcp
Get(sid) ==
    /\ last' = IF sid = 0 \/ transports[sid] = 0
               THEN Response("GET", sid, "none", 400, "Session not found", 0, NoCall)
               ELSE Response("GET", sid, "none", 200, "none", transports[sid], NoCall)
    /\ UNCHANGED <<env, jwt, ff3Fault, now, transports, tr, authorized>>

\* DELETE /mcp: the transport found in the map handles the request: it
\* closes, which calls onclose.
Delete(sid) ==
    /\ IF sid = 0 \/ transports[sid] = 0
       THEN /\ last' = Response("DELETE", sid, "none", 400, "Session not found", 0, NoCall)
            /\ UNCHANGED <<transports, tr>>
       ELSE LET t == transports[sid]
            IN  /\ tr' = [tr EXCEPT ![t].status = "closed"]
                /\ transports' = onclose(t)
                /\ last' = Response("DELETE", sid, "none", 200, "none", t, NoCall)
    /\ UNCHANGED <<env, jwt, ff3Fault, now, authorized>>

\* The clock advances until the call under study is made.
Tick ==
    /\ last = NoRequest
    /\ now < MaxTime
    /\ now' = now + 1
    /\ UNCHANGED <<env, jwt, ff3Fault, transports, tr, authorized, last>>

-----------------------------------------------------------------------------
(* Inputs *)

Env(mode, token, jwtKey, iss, aud) ==
    [AUTH_MODE |-> mode, AUTH_TOKEN |-> token, AUTH_JWT_SECRET |-> jwtKey,
     AUTH_JWT_ISS |-> iss, AUTH_JWT_AUD |-> aud]

Jwt(key, alg, iss, aud, exp, nbf) ==
    [key |-> key, alg |-> alg, iss |-> iss, aud |-> aud, exp |-> exp, nbf |-> nbf]

\* The token expires when the clock has passed exp + clockTolerance.
ExpiresAfterStart == {1 - clockTolerance}

BearerJwt == BearerPrefix \o <<"JWT">>

\* Session requests: the servers run in one of the four modes with the
\* default secret; the client holds a token signed with the default secret.
SessionEnvs == {Env(m, "", "", "", "") : m \in {"authless", "debug", "test", "production"}}
SessionJwts == {Jwt("demo-secret", "HS256", "", "", ExpiresAfterStart, {})}
SessionTokens == {Undefined, <<"demo-secret">>, BearerJwt}
SessionHeaders == {Undefined}
SessionValues == {Undefined, <<"1", "2", "3", "4", "5", "6">>}
Bodies == {"initialize", "tools/call", "other"}

Init ==
    /\ env \in SessionEnvs
    /\ jwt \in SessionJwts
    /\ ff3Fault = FALSE
    /\ now = 0
    /\ transports = [k \in SessionIds |-> 0]
    /\ tr = [t \in Transports |-> NoTransport]
    /\ authorized = 0
    /\ last = NoRequest

Next ==
    \/ PostInitialize
    \/ \E t \in Transports, id \in sessionIdGenerator : Connected(t, id)
    \/ \E sid \in SessionIds, tool \in Tools, value \in SessionValues,
          user_token \in SessionTokens, headerToken \in SessionHeaders :
          PostToolCall(sid, tool, value, user_token, headerToken)
    \/ \E sid \in SessionIds, body \in Bodies \ {"tools/call"} : PostOther(sid, body)
    \/ \E sid \in {0} \cup SessionIds, body \in Bodies : PostInvalid(sid, body)
    \/ \E sid \in {0} \cup SessionIds : Get(sid)
    \/ \E sid \in {0} \cup SessionIds : Delete(sid)

Spec == Init /\ [][Next]_vars

-----------------------------------------------------------------------------
(* The authorization gates and AuthService applied to every credential     *)
(* string of up to MaxCredLen atoms, under every configuration.            *)

AuthAtoms == {"Bearer", " ", "demo-secret", "JWT", "x"}

Credentials == {Undefined} \cup UNION {[1..n -> AuthAtoms] : n \in 0..MaxCredLen}

\* Every mode value with the default secrets (the signing key defaults to the
\* shared secret); the two enforcing modes also with a separate
\* AUTH_JWT_SECRET ("K").
RecognisedModes == {"authless", "debug", "test", "production"}
Modes == {"", "authless", "debug", "test", "production", "staging"}
AuthEnvs ==
    {Env(m, "", "", "", "") : m \in Modes}
    \cup {Env(m, "", "K", "", "") : m \in {"test", "production"}}

\* The client's token is signed with the default secret or with "K".
AuthJwts == {Jwt(k, "HS256", "", "", ExpiresAfterStart, {}) : k \in {"demo-secret", "K"}}

Decision(token) ==
    [token  |-> token,
     http   |-> authorizeOrThrow(token),
     stdio  |-> stdioAuthorizeOrThrow(token),
     header |-> verifyAuthorizationHeader(token)]

AuthorizeCall(token) ==
    /\ last = NoRequest
    /\ last' = Response("authorize", 0, "none", 0, "none", 0, Decision(token))
    /\ UNCHANGED <<env, jwt, ff3Fault, now, transports, tr, authorized>>

InitAuth ==
    /\ env \in AuthEnvs
    /\ jwt \in AuthJwts
    /\ ff3Fault = FALSE
    /\ now = 0
    /\ transports = [k \in SessionIds |-> 0]
    /\ tr = [t \in Transports |-> NoTransport]
    /\ authorized = 0
    /\ last = NoRequest

NextAuth ==
    \/ \E token \in Credentials : AuthorizeCall(token)
    \/ Tick

SpecAuth == InitAuth /\ [][NextAuth]_vars

-----------------------------------------------------------------------------
(* The gates and AuthService applied to one credential under two modes:    *)
(* the servers are started with one of the four modes, decide a            *)
(* credential, are started again with another mode and the configuration   *)
(* otherwise unchanged, and decide the same credential at the same time.   *)

ModeEnvs == {Env(m, "", "", "", "") : m \in RecognisedModes}

SameCallInMode(mode) ==
    /\ last.kind = "authorize"
    /\ mode # env.AUTH_MODE
    /\ env' = [env EXCEPT !.AUTH_MODE = mode]
    /\ UNCHANGED <<jwt, ff3Fault, now, transports, tr, authorized>>
    /\ \E token \in {last.call.token} :
          last' = Response("authorize-in-mode", 0, "none", 0, "none", 0,
                     [token |-> token, from |-> env.AUTH_MODE,
                      before |-> last.call, after |-> Decision(token)'])

InitModes ==
    /\ env \in ModeEnvs
    /\ jwt \in AuthJwts
    /\ ff3Fault = FALSE
    /\ now = 0
    /\ transports = [k \in SessionIds |-> 0]
    /\ tr = [t \in Transports |-> NoTransport]
    /\ authorized = 0
    /\ last = NoRequest

NextModes ==
    \/ \E token \in Credentials : AuthorizeCall(token)
    \/ \E mode \in RecognisedModes : SameCallInMode(mode)

SpecModes == InitModes /\ [][NextModes]_vars

-----------------------------------------------------------------------------
(* The tool handlers of both servers applied to calls.                     *)

ToolTokens == {Undefined, <<>>, <<"x">>, <<"demo-secret">>, BearerPrefix \o <<"demo-secret">>, BearerJwt}
ToolHeaders == {Undefined, <<>>, <<"x">>, BearerJwt}
ToolValues ==
    {Undefined, <<>>,
     <<"1", "2", "3", "4", "5">>,
     <<"1", "2", "3", "4", "5", "6">>,
     <<"1", "2", "3", "-", "4", "5", "6">>,
     <<"a", "-">>,
     Tag,
     Tag \o <<"6", "5", "4", "3", "2", "1">>,
     Tag \o <<"1", "2">>,
     Tag \o <<"1", "a", "3", "4", "5", "6">>}

HttpToolCall(tool, value, user_token, headerToken) ==
    /\ last = NoRequest
    /\ last' = Response("http-call", 0, "tools/call", 0, "none", 0,
                  Call(tool, value, user_token, headerToken,
                       httpToolHandler(tool, value, user_token, headerToken)))
    /\ UNCHANGED <<env, jwt, ff3Fault, now, transports, tr, authorized>>

StdioToolCall(tool, value, user_token) ==
    /\ last = NoRequest
    /\ last' = Response("stdio-call", 0, "tools/call", 0, "none", 0,
                  Call(tool, value, user_token, Undefined,
                       stdioToolHandler(tool, value, user_token)))
    /\ UNCHANGED <<env, jwt, ff3Fault, now, transports, tr, authorized>>

\* The client of the last call calls a tool again, with the same credentials.
NextToolCall(tool, value) ==
    /\ last.kind \in {"http-call", "stdio-call"}
    /\ last' = Response(last.kind, 0, "tools/call", 0, "none", 0,
                  Call(tool, value, last.call.user_token, last.call.headerToken,
                       IF last.kind = "http-call"
                       THEN httpToolHandler(tool, value, last.call.user_token, last.call.headerToken)
                       ELSE stdioToolHandler(tool, value, last.call.user_token)))
    /\ UNCHANGED <<env, jwt, ff3Fault, now, transports, tr, authorized>>

InitTools ==
    /\ env \in SessionEnvs
    /\ jwt \in AuthJwts
    /\ ff3Fault \in BOOLEAN
    /\ now = 0
    /\ transports = [k \in SessionIds |-> 0]
    /\ tr = [t \in Transports |-> NoTransport]
    /\ authorized = 0
    /\ last = NoRequest

NextTools ==
    \/ \E tool \in Tools, value \in ToolValues, user_token \in ToolTokens, headerToken \in ToolHeaders :
          HttpToolCall(tool, value, user_token, headerToken)
    \/ \E tool \in Tools, value \in ToolValues, user_token \in ToolTokens :
          StdioToolCall(tool, value, user_token)
    \/ \E tool \in Tools, value \in ToolValues : NextToolCall(tool, value)
    \/ Tick

SpecTools == InitTools /\ [][NextTools]_vars

-----------------------------------------------------------------------------
(* The stdio handler applied to arguments as they arrive: value is a       *)
(* string or a JSON value of another type.                                 *)

StdioValues == ToolValues \cup {NotAString}

NextStdio ==
    \/ \E tool \in Tools, value \in StdioValues, user_token \in ToolTokens :
          StdioToolCall(tool, value, user_token)
    \/ Tick

SpecStdio == InitTools /\ [][NextStdio]_vars

-----------------------------------------------------------------------------
(* AuthService and the gates in the two enforcing modes, applied to        *)
(* headers around a token of every algorithm, signing key, issuer and      *)
(* audience, under every configuration of signing key, issuer and          *)
(* audience, before and after the token expires.                           *)

JwtEnvs ==
    {Env(m, "", k, i, a) :
        m \in {"test", "production"}, k \in {"", "K"}, i \in {"", "I"}, a \in {"", "A"}}

Algorithms == {"HS256", "HS384", "RS256", "none"}

JwtTokens ==
    {Jwt(k, alg, i, a, ExpiresAfterStart, {}) :
        k \in {"demo-secret", "K"}, alg \in Algorithms,
        i \in {"", "I", "J"}, a \in {"", "A", "B"}}

JwtHeaders ==
    {Undefined, <<>>, <<"x">>, <<"JWT">>, <<"demo-secret">>,
     BearerPrefix \o <<"x">>,
     BearerJwt,
     <<"bearer", " ", "JWT">>,
     <<"BEARER", " ", "JWT">>,
     BearerPrefix \o <<" ", "JWT">>,
     BearerJwt \o <<" ">>,
     BearerJwt \o <<" ", "x">>,
     BearerPrefix \o <<"demo-secret">>,
     <<"bearer", " ", "demo-secret">>,
     BearerPrefix \o <<" ", "demo-secret">>}

\* What the gates and AuthService answer for a header, and what verifyJwt
\* answers for the token itself and for a text that is no token.
Verification(token) ==
    [token   |-> token,
     http    |-> authorizeOrThrow(token),
     stdio   |-> stdioAuthorizeOrThrow(token),
     header  |-> verifyAuthorizationHeader(token),
     jwt     |-> verifyJwt(<<"JWT">>),
     garbage |-> verifyJwt(<<"x">>)]

VerifyCall(token) ==
    /\ last = NoRequest
    /\ last' = Response("verify", 0, "none", 0, "none", 0, Verification(token))
    /\ UNCHANGED <<env, jwt, ff3Fault, now, transports, tr, authorized>>

InitJwt ==
    /\ env \in JwtEnvs
    /\ jwt \in JwtTokens
    /\ ff3Fault = FALSE
    /\ now = 0
    /\ transports = [k \in SessionIds |-> 0]
    /\ tr = [t \in Transports |-> NoTransport]
    /\ authorized = 0
    /\ last = NoRequest

NextJwt ==
    \/ \E token \in JwtHeaders : VerifyCall(token)
    \/ Tick

SpecJwt == InitJwt /\ [][NextJwt]_vars

-----------------------------------------------------------------------------
(* AuthService and the gates applied to a correctly signed token around    *)
(* the ends of its time window: the token expires, or becomes valid, a     *)
(* little less than, exactly, or a little more than clockTolerance seconds *)
(* from the start of the run; the client presents it, and presents it      *)
(* again as the clock advances.                                            *)

ClockEnvs == {Env(m, "", "", "", "") : m \in {"test", "production"}}

ExpiryTimes ==
    {{}} \cup {{e} : e \in (0 - clockTolerance - 1)..(MaxTime - clockTolerance + 1)}

NotBeforeTimes ==
    {{}} \cup {{n} : n \in (clockTolerance - 1)..(clockTolerance + MaxTime + 1)}

ClockTokens ==
    {Jwt("demo-secret", "HS256", "", "", exp, nbf) : exp \in ExpiryTimes, nbf \in NotBeforeTimes}

ClockHeaders == {BearerJwt, <<"JWT">>, BearerPrefix \o <<"x">>}

\* One second later the client of the last call presents its header again.
VerifyLater ==
    /\ last.kind \in {"verify", "verify-later"}
    /\ now < MaxTime
    /\ now' = now + 1
    /\ UNCHANGED <<env, jwt, ff3Fault, transports, tr, authorized>>
    /\ \E token \in ClockHeaders :
          /\ token = last.call.token
          /\ last' = Response("verify-later", 0, "none", 0, "none", 0, Verification(token)')

InitClock ==
    /\ env \in ClockEnvs
    /\ jwt \in ClockTokens
    /\ ff3Fault = FALSE
    /\ now = 0
    /\ transports = [k \in SessionIds |-> 0]
    /\ tr = [t \in Transports |-> NoTransport]
    /\ authorized = 0
    /\ last = NoRequest

NextClock ==
    \/ \E token \in ClockHeaders : VerifyCall(token)
    \/ VerifyLater
    \/ Tick

SpecClock == InitClock /\ [][NextClock]_vars

-----------------------------------------------------------------------------
(* FPEService.encrypt and FPEService.decrypt applied to values of 0 to     *)
(* MAX_LENGTH + MaxExcess digits, bare, with a separator, with a letter,   *)
(* and each of these behind the tag; and applied again to what encrypt     *)
(* returned.                                                               *)

DigitString(n) == [i \in 1..n |-> DigitSeq[(i % RADIX) + 1]]

Styles == {"digits", "separator", "letter"}

Format(d, style) ==
    IF style = "separator"
    THEN IF Len(d) > 3 THEN SubSeq(d, 1, 3) \o <<"-">> \o SubSeq(d, 4, Len(d)) ELSE d \o <<"-">>
    ELSE IF style = "letter" THEN <<"a">> \o d
    ELSE d

FpeValues ==
    {Undefined} \cup
    {p \o Format(DigitString(n), st) :
        p \in {<<>>, Tag}, n \in 0..(MAX_LENGTH + MaxExcess), st \in Styles}

FpeCall(value, r) == [value |-> value, first |-> r, result |-> r]

\* fpe.encrypt(value)
EncryptCall(value) ==
    /\ last = NoRequest
    /\ last' = Response("encrypt", 0, "none", 0, "none", 0, FpeCall(value, encrypt(value)))
    /\ UNCHANGED <<env, jwt, ff3Fault, now, transports, tr, authorized>>

\* fpe.decrypt(value)
DecryptCall(value) ==
    /\ last = NoRequest
    /\ last' = Response("decrypt", 0, "none", 0, "none", 0, FpeCall(value, decrypt(value)))
    /\ UNCHANGED <<env, jwt, ff3Fault, now, transports, tr, authorized>>

\* fpe.encrypt(fpe.encrypt(value))
EncryptResult ==
    /\ last.kind = "encrypt" /\ last.call.result.ok
    /\ last' = Response("encrypt-encrypt", 0, "none", 0, "none", 0,
                  [last.call EXCEPT !.result = encrypt(last.call.first.value)])
    /\ UNCHANGED <<env, jwt, ff3Fault, now, transports, tr, authorized>>

\* fpe.decrypt(fpe.encrypt(value))
DecryptResult ==
    /\ last.kind = "encrypt" /\ last.call.result.ok
    /\ last' = Response("encrypt-decrypt", 0, "none", 0, "none", 0,
                  [last.call EXCEPT !.result = decrypt(last.call.first.value)])
    /\ UNCHANGED <<env, jwt, ff3Fault, now, transports, tr, authorized>>

InitFpe ==
    /\ env = Env("authless", "", "", "", "")
    /\ jwt \in SessionJwts
    /\ ff3Fault \in BOOLEAN
    /\ now = 0
    /\ transports = [k \in SessionIds |-> 0]
    /\ tr = [t \in Transports |-> NoTransport]
    /\ authorized = 0
    /\ last = NoRequest

NextFpe ==
    \/ \E value \in FpeValues : EncryptCall(value)
    \/ \E value \in FpeValues : DecryptCall(value)
    \/ EncryptResult
    \/ DecryptResult

SpecFpe == InitFpe /\ [][NextFpe]_vars

-----------------------------------------------------------------------------
(* Claims about the authorization gate                                     *)

\* The first space-delimited word of a string.
FirstWord(s) ==
    IF \E i \in 1..Len(s) : s[i] = " "
    THEN SubSeq(s, 1, (CHOOSE k \in 1..Len(s) : s[k] = " " /\ \A j \in 1..(k - 1) : s[j] # " ") - 1)
    ELSE s

AfterBearer(token) == slice(token, Len(BearerPrefix))

\* The client's token verifies under the configuration at the current time.
SignedTokenValid == jwtVerifies(<<"JWT">>)

Decided == last.kind = "authorize"

\* C1: in production mode the shared secret, bare or as "Bearer <secret>",
\* is denied by both gates, also when the signing key is the shared secret;
\* either gate lets a call through only if its credential starts with
\* "Bearer " and the word extracted after it is a token that verifies.
C1_StrictDeniesSharedSecret ==
    (Decided /\ AUTH_MODE = "production") =>
        /\ last.call.token \in {shared, BearerPrefix \o shared} =>
              (last.call.http # "ok" /\ last.call.stdio # "ok")
        /\ (last.call.http = "ok" \/ last.call.stdio = "ok") =>
              /\ startsWith(last.call.token, BearerPrefix)
              /\ FirstWord(AfterBearer(last.call.token)) = <<"JWT">>
              /\ SignedTokenValid

C1_Witness ==
    /\ Decided /\ AUTH_MODE = "production"
    /\ env.AUTH_JWT_SECRET = "" /\ jwtSecret = shared
    /\ last.call.token = BearerPrefix \o shared
    /\ last.call.http = UnauthorizedProduction

\* C2 as stated: in test mode the HTTP gate lets a call through if and only
\* if its credential verifies as a signed token or, with an optional
\* "Bearer " prefix stripped and the rest trimmed, equals the shared secret.
StrippedAndTrimmed(token) ==
    IF startsWith(token, BearerPrefix) THEN trim(AfterBearer(token)) ELSE trim(token)

VerifiesAsSignedToken(token) ==
    /\ startsWith(token, BearerPrefix)
    /\ FirstWord(AfterBearer(token)) = <<"JWT">>
    /\ SignedTokenValid

C2_DualAllowsTokenOrTrimmedSecret ==
    (Decided /\ AUTH_MODE = "test") =>
        (last.call.http = "ok" <=>
            /\ last.call.token # Undefined
            /\ \/ VerifiesAsSignedToken(last.call.token)
               \/ StrippedAndTrimmed(last.call.token) = shared)

\* C2 amended: in test mode the HTTP gate lets a call through if and only if
\* its credential starts with "Bearer " and the first word after the prefix
\* is a token that verifies or is the shared secret, or it starts with
\* "Bearer " and the rest, trimmed, is the shared secret, or it has no such
\* prefix and is the shared secret itself, untrimmed.
C2_DualAllowsTokenOrSecret ==
    (Decided /\ AUTH_MODE = "test") =>
        (last.call.http = "ok" <=>
            \/ /\ startsWith(last.call.token, BearerPrefix)
               /\ \/ VerifiesAsSignedToken(last.call.token)
                  \/ FirstWord(AfterBearer(last.call.token)) = shared
                  \/ trim(AfterBearer(last.call.token)) = shared
            \/ /\ ~startsWith(last.call.token, BearerPrefix)
               /\ last.call.token = shared)

C2_Witness ==
    /\ Decided /\ AUTH_MODE = "test"
    /\ last.call.token = BearerPrefix \o <<" ">> \o shared
    /\ last.call.http = "ok"

\* C3: in authless and in debug mode both gates let every call through,
\* whatever its credential.
C3_OpenAndPermissiveAllowAll ==
    (Decided /\ AUTH_MODE \in {"authless", "debug"}) =>
        (last.call.http = "ok" /\ last.call.stdio = "ok")

C3_Witness ==
    /\ Decided /\ AUTH_MODE = "debug"
    /\ last.call.token = <<"x">>
    /\ last.call.header = "false"
    /\ last.call.http = "ok"

-----------------------------------------------------------------------------
(* Claims about tool calls                                                 *)

SessionToolCalled == last.kind = "POST" /\ last.call # NoCall

\* The credential of a call on the HTTP server: headerToken || user_token.
Credential(call) ==
    IF call.headerToken # Undefined /\ call.headerToken # <<>>
    THEN call.headerToken
    ELSE call.user_token

\* C4: the decision of every tool call in a session is the gate's decision
\* for the configured mode and secrets, the clock and that call's own
\* credential, whatever calls were authorized before; in test and production
\* mode a call without credential is denied, and so is the bare shared
\* secret in production mode.
C4_DecisionRecomputedPerCall ==
    SessionToolCalled =>
        /\ (last.call.stage = "authorize") <=> (authorizeOrThrow(Credential(last.call)) # "ok")
        /\ (AUTH_MODE \in {"test", "production"} /\ Credential(last.call) = Undefined) =>
              (last.call.stage = "authorize" /\ last.call.code = "InvalidRequest")
        /\ (AUTH_MODE = "production" /\ Credential(last.call) = shared) =>
              (last.call.stage = "authorize" /\ last.call.code = "InvalidRequest")

\* A call is denied in a session whose previous call passed the gate.
C4_Witness ==
    /\ SessionToolCalled
    /\ AUTH_MODE \in {"test", "production"}
    /\ authorized = last.transport
    /\ last.call.stage = "authorize"

ToolCalled == last.kind \in {"http-call", "stdio-call"}

GateResult ==
    IF last.kind = "http-call"
    THEN authorizeOrThrow(Credential(last.call))
    ELSE stdioAuthorizeOrThrow(last.call.user_token)

MissingOrEmpty(value) == value = Undefined \/ value = <<>>

-----------------------------------------------------------------------------
(* Claims about the session registry                                       *)

Closed(t, k) == tr[t].status = "closed" /\ tr[t].sessionId = k

\* C6: an id whose session was closed has no entry in the map in any later
\* state: requests carrying it are rejected and no later initialize request
\* registers it again.
C6_RemovedNeverRevived ==
    \A k \in SessionIds : (\E t \in Transports : Closed(t, k)) => transports[k] = 0

\* C7: every initialized, open transport is the one its own session id
\* resolves to, so the ids of the open transports are pairwise distinct.
C7_RegisteredUnderOwnId ==
    \A t \in Transports : tr[t].status = "open" => transports[tr[t].sessionId] = t

\* C8: an entry of the map is never overwritten or replaced by another
\* transport: it only ever changes by being removed.
C8_NoOverwrite ==
    [][\A k \in SessionIds :
          transports[k] # 0 => transports'[k] \in {0, transports[k]}]_vars

\* The POST handled in this step is one the route must reject: no session id
\* and no initialize body, or a session id without entry in the map.
RejectedPost ==
    /\ last'.kind = "POST"
    /\ \/ last'.sessionId = 0 /\ last'.body # "initialize"
       \/ last'.sessionId # 0 /\ transports[last'.sessionId] = 0

C10_LookupSeesOpenSessions ==
    /\ [](\A k \in SessionIds :
            transports[k] # 0 =>
               (tr[transports[k]].status = "open" /\ tr[transports[k]].sessionId = k))
    /\ [][ (last'.sessionId # 0 /\ last'.transport # 0) =>
              /\ transports[last'.sessionId] = last'.transport
              /\ tr[last'.transport].status = "open"
              /\ tr[last'.transport].sessionId = last'.sessionId ]_vars

\* A POST carrying the id of a closed session was rejected.
C10_Witness ==
    /\ last.kind = "POST" /\ last.status = 400
    /\ last.sessionId # 0
    /\ \E t \in Transports : Closed(t, last.sessionId)
    /\ transports[last.sessionId] = 0

\* The request handled in this step carries no session id or one that has
\* no entry in the map.
AbsentId == last'.sessionId = 0 \/ transports[last'.sessionId] = 0

\* C11: a DELETE for a session id that has no entry in the map leaves the
\* map unchanged and is answered without an error.
C11_RemoveAbsentIsNoOp ==
    [][ (last'.kind = "DELETE" /\ AbsentId) =>
            /\ transports' = transports
            /\ last'.status = 200
            /\ last'.message = "none" ]_vars

-----------------------------------------------------------------------------
(* Claims about the tool handlers                                          *)

Present(token) == token # Undefined /\ token # <<>>

\* C13: on the HTTP server a call that carries an authorization value in
\* _meta is decided on that value alone, whatever its user_token; the
\* user_token decides only when no such value is present.
C13_OutOfBandTakesPrecedence ==
    last.kind = "http-call" =>
        LET decisive == IF Present(last.call.headerToken)
                        THEN last.call.headerToken
                        ELSE last.call.user_token
        IN  /\ (last.call.stage = "authorize") <=> (authorizeOrThrow(decisive) # "ok")
            /\ last.call.stage = "authorize" => last.call.message = authorizeOrThrow(decisive)

\* A call with an invalid _meta value and the shared secret as user_token is
\* denied in test mode.
C13_Witness ==
    /\ last.kind = "http-call" /\ AUTH_MODE = "test"
    /\ last.call.headerToken = <<"x">>
    /\ last.call.user_token = shared
    /\ last.call.stage = "authorize"

\* C14: on both servers a call that passes the gate and has no value or an
\* empty one ends with InvalidParams 'Missing required parameter: value' and
\* no cipher invocation.
C14_MissingValueBeforeTransform ==
    (ToolCalled /\ GateResult = "ok" /\ MissingOrEmpty(last.call.value)) =>
        /\ last.call.stage = "validate"
        /\ last.call.code = "InvalidParams"
        /\ last.call.message = "Missing required parameter: value"
        /\ last.call.result = Undefined
        /\ last.call.cipher = 0

C14_Witness ==
    /\ last.kind = "stdio-call" /\ AUTH_MODE = "production"
    /\ last.call.user_token = BearerJwt
    /\ last.call.tool = "fpe_decrypt"
    /\ last.call.value = <<>>
    /\ last.call.code = "InvalidParams"

CipherFailed == ToolCalled /\ last.call.stage = "transform" /\ last.call.cipher > 0

\* The cipher rejected its input: only decrypt hands it a string of digits
\* whose length it has not checked.
DomainFailure ==
    /\ last.call.tool = "fpe_decrypt"
    /\ ~FF3InDomain(slice(last.call.value, Len(Tag)))

\* C17: a call in which the cipher failed is reported as InvalidParams when
\* the cipher rejected its input and as InternalError otherwise.
C17_OtherFailuresAreInternal ==
    CipherFailed =>
        last.call.code = (IF DomainFailure THEN "InvalidParams" ELSE "InternalError")

\* The outcome computed from this call's own arguments: the gate's denial,
\* or the value check and the transform.
Fresh ==
    IF GateResult # "ok"
    THEN Denied(GateResult)
    ELSE validateAndTransform(last.call.tool, last.call.value)

\* C20: every call ends with one result or one error, never both or neither;
\* the cipher is invoked at most once, also when it fails; a failure of the
\* cipher is reported; and the outcome is the handler's outcome for this
\* call's own arguments, whatever call came before.
C20_OneOutcomePerCall ==
    ToolCalled =>
        /\ (last.call.code = "none") <=> (last.call.stage = "done")
        /\ (last.call.code = "none") <=> (last.call.result # Undefined)
        /\ (last.call.code = "none") <=> (last.call.message = "none")
        /\ last.call.cipher \in {0, 1}
        /\ (last.call.cipher = 1 /\ ff3Fault) =>
              (last.call.stage = "transform" /\ last.call.code # "none")
        /\ Outcome(last.call.stage,
                   [code |-> last.call.code, message |-> last.call.message,
                    value |-> last.call.result, cipher |-> last.call.cipher]) = Fresh

\* A call in which the cipher failed for a reason of its own ended with an
\* error after one invocation.
C20_Witness ==
    /\ ToolCalled /\ ff3Fault
    /\ last.call.tool = "fpe_encrypt"
    /\ last.call.stage = "transform"
    /\ last.call.cipher = 1
    /\ last.call.code # "none"

-----------------------------------------------------------------------------
(* Claims about FPEService                                                 *)

Failed(r, code) == ~r.ok /\ r.code = code /\ r.value = Undefined

\* C15: encrypt of an untagged value whose digits number fewer than
\* MIN_LENGTH (none at all included) or more than MAX_LENGTH throws
\* InvalidParams without invoking the cipher.
C15_EncryptRejectsBadLength ==
    ( /\ last.kind = "encrypt"
      /\ ~isEncrypted(last.call.value)
      /\ \/ Len(normalizeDigits(last.call.value)) < MIN_LENGTH
         \/ Len(normalizeDigits(last.call.value)) > MAX_LENGTH ) =>
        (Failed(last.call.result, "InvalidParams") /\ last.call.result.cipher = 0)

\* A formatted value with more than MAX_LENGTH digits was rejected.
C15_Witness ==
    /\ last.kind = "encrypt"
    /\ ~isEncrypted(last.call.value)
    /\ Len(last.call.value) > Len(normalizeDigits(last.call.value))
    /\ Len(normalizeDigits(last.call.value)) > MAX_LENGTH
    /\ Failed(last.call.result, "InvalidParams")

Malformed(value) ==
    \/ ~isEncrypted(value)
    \/ slice(value, Len(Tag)) = <<>>
    \/ \E i \in 1..Len(slice(value, Len(Tag))) : slice(value, Len(Tag))[i] \notin Digits

\* C16: decrypt of a value without the tag, or with the tag followed by
\* nothing or by anything that is not a digit, throws InvalidParams without
\* invoking the cipher.
C16_DecryptRejectsMalformed ==
    (last.kind = "decrypt" /\ Malformed(last.call.value)) =>
        (Failed(last.call.result, "InvalidParams") /\ last.call.result.cipher = 0)

\* A tagged value with a separator among its digits was rejected.
C16_Witness ==
    /\ last.kind = "decrypt"
    /\ isEncrypted(last.call.value)
    /\ Len(normalizeDigits(last.call.value)) >= MIN_LENGTH
    /\ Malformed(last.call.value)
    /\ Failed(last.call.result, "InvalidParams")

NormalizedInDomain(value) == FF3InDomain(normalizeDigits(value))

\* C18 as stated: decrypt(encrypt(x)) = x for every x whose digits are in
\* the cipher's domain.
C18_RoundTrip ==
    (last.kind = "encrypt-decrypt" /\ NormalizedInDomain(last.call.value)) =>
        (last.call.result.ok /\ last.call.result.value = last.call.value)

\* C18 amended: for every untagged x whose digits are in the cipher's domain
\* encrypt succeeds when the cipher does, and decrypt(encrypt(x)) is the
\* digits of x: x itself exactly when x consists of digits only.
C18_RoundTripOfDigits ==
    /\ ( /\ last.kind = "encrypt" /\ ~ff3Fault
         /\ ~isEncrypted(last.call.value)
         /\ NormalizedInDomain(last.call.value) ) =>
           last.call.result.ok
    /\ ( /\ last.kind = "encrypt-decrypt"
         /\ ~isEncrypted(last.call.value)
         /\ NormalizedInDomain(last.call.value) ) =>
           /\ last.call.result.ok
           /\ last.call.result.value = normalizeDigits(last.call.value)
           /\ (last.call.result.value = last.call.value) <=>
                 (last.call.value = normalizeDigits(last.call.value))

\* A value with a separator came back as its digits.
C18_Witness ==
    /\ last.kind = "encrypt-decrypt"
    /\ ~isEncrypted(last.call.value)
    /\ last.call.value # normalizeDigits(last.call.value)
    /\ last.call.first.cipher = 1
    /\ last.call.result.value = normalizeDigits(last.call.value)

\* C19: encrypt applied to what encrypt returned returns the same value and
\* does not invoke the cipher; a tagged input is returned unchanged without
\* invoking the cipher.
C19_EncryptIdempotent ==
    /\ last.kind = "encrypt-encrypt" =>
          /\ last.call.result.ok
          /\ last.call.result.value = last.call.first.value
          /\ last.call.result.cipher = 0
    /\ (last.kind = "encrypt" /\ isEncrypted(last.call.value)) =>
          /\ last.call.result.ok
          /\ last.call.result.value = last.call.value
          /\ last.call.result.cipher = 0

\* The value the cipher produced was encrypted again.
C19_Witness ==
    /\ last.kind = "encrypt-encrypt"
    /\ last.call.first.cipher = 1
    /\ last.call.result.value = last.call.first.value

-----------------------------------------------------------------------------
(* Claims about signed-token verification                                  *)

Verified == last.kind = "verify"

GoodSignature ==
    /\ jwt.alg = "HS256"
    /\ <<jwt.key>> = jwtSecret
    /\ \A exp \in jwt.exp : now < exp + clockTolerance

IssuerMatches == env.AUTH_JWT_ISS = "" \/ jwt.iss = env.AUTH_JWT_ISS
AudienceMatches == env.AUTH_JWT_AUD = "" \/ jwt.aud = env.AUTH_JWT_AUD

DeniedByBothGates == last.call.http # "ok" /\ last.call.stdio # "ok"

\* C22: a token signed with another key than the configured signing key is
\* not verified; with an issuer (audience) configured a token whose iss (aud)
\* claim differs from it or is missing is not verified; and a well-signed
\* token is verified whatever its iss and aud claims when neither is
\* configured, and whatever the claim that is not configured otherwise.
C22_KeyIssuerAudience ==
    Verified =>
        /\ <<jwt.key>> # jwtSecret => last.call.jwt = "null"
        /\ ~IssuerMatches => last.call.jwt = "null"
        /\ ~AudienceMatches => last.call.jwt = "null"
        /\ (GoodSignature /\ IssuerMatches /\ AudienceMatches) => last.call.jwt = "payload"
        /\ (last.call.jwt = "null" /\ last.call.token = BearerJwt /\ AUTH_MODE = "production") =>
              DeniedByBothGates

\* A well-signed token of another issuer was denied.
C22_Witness ==
    /\ Verified /\ AUTH_MODE = "production"
    /\ GoodSignature /\ AudienceMatches
    /\ env.AUTH_JWT_ISS = "I" /\ jwt.iss = "J"
    /\ last.call.token = BearerJwt
    /\ last.call.http = UnauthorizedProduction

\* C25: a token that declares another algorithm than HS256 is never
\* verified, whatever key it was signed with: verifyJwt answers null, the
\* header check never answers a payload, and in production mode both gates
\* deny the call.
C25_OnlyHS256 ==
    (Verified /\ jwt.alg # "HS256") =>
        /\ last.call.jwt = "null"
        /\ last.call.header # "payload"
        /\ AUTH_MODE = "production" => DeniedByBothGates

\* An unexpired token of algorithm 'none' that names the right issuer and
\* audience was denied.
C25_Witness ==
    /\ Verified /\ AUTH_MODE = "production"
    /\ jwt.alg = "none" /\ now = 0
    /\ IssuerMatches /\ AudienceMatches
    /\ last.call.token = BearerJwt
    /\ last.call.http = UnauthorizedProduction

SignedWithSharedSecret == jwt.alg = "HS256" /\ <<jwt.key>> = shared

\* C27: without AUTH_JWT_SECRET an unexpired HS256 token signed with the
\* shared secret (and naming the configured issuer and audience) verifies and
\* is let through by both gates in test and in production mode; with a
\* separate AUTH_JWT_SECRET such a token is not verified and is denied.
C27_SigningKeyDefaultsToSharedSecret ==
    (Verified /\ SignedWithSharedSecret) =>
        /\ ( /\ env.AUTH_JWT_SECRET = ""
             /\ (\A exp \in jwt.exp : now < exp + clockTolerance)
             /\ IssuerMatches /\ AudienceMatches ) =>
              /\ last.call.jwt = "payload"
              /\ last.call.token = BearerJwt =>
                    (last.call.http = "ok" /\ last.call.stdio = "ok")
        /\ (env.AUTH_JWT_SECRET # "" /\ <<env.AUTH_JWT_SECRET>> # shared) =>
              /\ last.call.jwt = "null"
              /\ last.call.token = BearerJwt => DeniedByBothGates

\* With a separate signing key a token signed with the shared secret was
\* denied in test mode.
C27_Witness ==
    /\ Verified /\ AUTH_MODE = "test"
    /\ SignedWithSharedSecret /\ now = 0
    /\ env.AUTH_JWT_SECRET = "K"
    /\ last.call.token = BearerJwt
    /\ last.call.http = UnauthorizedTest

Enforcing == AUTH_MODE \in {"test", "production"}

\* The HTTP gate's answer when the value taken from a credential that
\* starts with "Bearer " is verified as a token and, in test mode, compared
\* with the shared secret in the given ways; a credential without the prefix
\* passes only in test mode, as the shared secret itself.
GateAnswers(tokenValue, secretValues) ==
    last.call.http = "ok" <=>
        \/ /\ startsWith(last.call.token, BearerPrefix)
           /\ \/ jwtVerifies(tokenValue)
              \/ AUTH_MODE = "test" /\ shared \in secretValues
        \/ /\ ~startsWith(last.call.token, BearerPrefix)
           /\ AUTH_MODE = "test"
           /\ last.call.token = shared

\* C23 as stated: a credential is bearer-scheme only if it starts with the
\* case-sensitive "Bearer ", and the value verified as a token and compared
\* with the shared secret is all that follows the prefix, trimmed.
C23_BearerRemainderTrimmed ==
    (Verified /\ Enforcing) =>
        GateAnswers(trim(AfterBearer(last.call.token)),
                    {trim(AfterBearer(last.call.token))})

\* C23 amended: a credential is bearer-scheme only if it starts with the
\* case-sensitive "Bearer "; the value verified as a token is the first
\* space-delimited word after the prefix; in test mode the shared secret is
\* compared with that word and with all that follows the prefix, trimmed.
C23_BearerFirstWord ==
    (Verified /\ Enforcing) =>
        GateAnswers(FirstWord(AfterBearer(last.call.token)),
                    {FirstWord(AfterBearer(last.call.token)),
                     trim(AfterBearer(last.call.token))})

\* A valid token followed by another word was let through in production
\* mode.
C23_Witness ==
    /\ Verified /\ AUTH_MODE = "production"
    /\ SignedTokenValid
    /\ last.call.token = BearerJwt \o <<" ", "x">>
    /\ last.call.http = "ok"

-----------------------------------------------------------------------------
(* Further claims about the gates, the handlers and FPEService             *)

UnauthorizedMessages == {UnauthorizedTest, UnauthorizedProduction}

\* C24: on both servers a denied call ends with the gate's error, whose
\* message is the test-mode text in test mode and the production-mode text
\* in production mode; and no call that ends with InvalidParams or
\* InternalError carries an Unauthorized message.
C24_DenialNamesMode ==
    ToolCalled =>
        /\ GateResult # "ok" =>
              /\ last.call.code = "InvalidRequest"
              /\ AUTH_MODE = "test" => last.call.message = UnauthorizedTest
              /\ AUTH_MODE = "production" => last.call.message = UnauthorizedProduction
        /\ last.call.message \in UnauthorizedMessages =>
              (last.call.code = "InvalidRequest" /\ GateResult # "ok")
        /\ last.call.code \in {"InvalidParams", "InternalError"} =>
              last.call.message \notin UnauthorizedMessages

C24_Witness ==
    /\ last.kind = "stdio-call" /\ AUTH_MODE = "test"
    /\ last.call.user_token = <<"x">>
    /\ last.call.value # Undefined
    /\ last.call.code = "InvalidRequest"
    /\ last.call.message = UnauthorizedTest

\* C26: with AUTH_MODE unset or empty the mode is authless: both gates let
\* every call through, with or without credential, and the header check
\* answers true.
C26_UnsetModeIsOpen ==
    (Decided /\ env.AUTH_MODE = "") =>
        /\ AUTH_MODE = "authless"
        /\ last.call.http = "ok"
        /\ last.call.stdio = "ok"
        /\ last.call.header = "true"

C26_Witness ==
    /\ Decided /\ env.AUTH_MODE = ""
    /\ last.call.token = Undefined
    /\ last.call.http = "ok" /\ last.call.stdio = "ok"

\* An absent or empty header, a header whose first word is not Bearer, and
\* 'Bearer' with nothing or only a space behind it.
NoBearerToken(header) ==
    \/ header \in {Undefined, <<>>}
    \/ FirstWord(header) # <<"Bearer">>
    \/ header \in {<<"Bearer">>, BearerPrefix}

\* 'Bearer ' directly followed by a word.
BearerWithToken(header) ==
    /\ startsWith(header, BearerPrefix)
    /\ Len(header) > Len(BearerPrefix)
    /\ header[Len(BearerPrefix) + 1] # " "

\* C30: verifyAuthorizationHeader answers false in debug, test and
\* production mode for every header without bearer token; in debug mode it
\* answers true for every header that has one; in authless mode it answers
\* true for every header, the absent one included.
C30_HeaderFormats ==
    Decided =>
        /\ (env.AUTH_MODE \in {"debug", "test", "production"} /\ NoBearerToken(last.call.token)) =>
              last.call.header = "false"
        /\ (env.AUTH_MODE = "debug" /\ BearerWithToken(last.call.token)) =>
              last.call.header = "true"
        /\ env.AUTH_MODE = "authless" => last.call.header = "true"

\* A header of another scheme was refused in debug mode.
C30_Witness ==
    /\ Decided /\ env.AUTH_MODE = "debug"
    /\ last.call.token = <<"x", " ", "x">>
    /\ last.call.header = "false"

C29_EncryptReturnsTaggedDigits ==
    (last.kind = "encrypt" /\ last.call.result.ok) => ~Malformed(last.call.result.value)

-----------------------------------------------------------------------------
(* Claims about unknown modes, the clock, the two gates and the modes'     *)
(* order                                                                   *)

\* C31: with an AUTH_MODE that is set and is none of authless, debug, test
\* and production, verifyAuthorizationHeader answers false for every header
\* and both gates deny every credential, a valid signed token and the shared
\* secret included, with the production-mode error.
C31_UnknownModeFailsClosed ==
    (Decided /\ env.AUTH_MODE \notin RecognisedModes \cup {""}) =>
        /\ last.call.header = "false"
        /\ last.call.http = UnauthorizedProduction
        /\ last.call.stdio = UnauthorizedProduction

\* A valid signed token behind 'Bearer ' was denied in mode "staging".
C31_Witness ==
    /\ Decided /\ env.AUTH_MODE = "staging"
    /\ last.call.token = BearerJwt /\ SignedTokenValid
    /\ last.call.header = "false"
    /\ last.call.http = UnauthorizedProduction

TimeVerified == last.kind \in {"verify", "verify-later"}

\* The clock has reached the token's expiry plus the tolerance.
Expired == \E exp \in jwt.exp : now >= exp + clockTolerance

\* The clock is more than the tolerance before the token's not-before time.
NotYetValid == \E nbf \in jwt.nbf : nbf - now > clockTolerance

\* C32 as stated: a correctly signed token is accepted when the clock is no
\* more than 5 seconds past its expiry and no more than 5 seconds before
\* its not-before time, and denied otherwise.
C32_ToleranceInclusive ==
    TimeVerified =>
        (last.call.jwt = "payload" <=>
            /\ \A exp \in jwt.exp : now - exp <= clockTolerance
            /\ \A nbf \in jwt.nbf : nbf - now <= clockTolerance)

\* C32: a correctly signed token is accepted, by verifyJwt and behind
\* 'Bearer ' by both gates, exactly while the clock in whole seconds is less
\* than 5 seconds past its expiry and no more than 5 seconds before its
\* not-before time; and a token denied as expired is denied again at every
\* later presentation.
C32_ClockTolerance ==
    [][ /\ TimeVerified' =>
              /\ last'.call.jwt = "payload" <=> (~Expired' /\ ~NotYetValid')
              /\ last'.call.garbage = "null"
              /\ last'.call.token = BearerJwt =>
                    /\ last'.call.http = "ok" <=> (~Expired' /\ ~NotYetValid')
                    /\ last'.call.stdio = "ok" <=> (~Expired' /\ ~NotYetValid')
        /\ (TimeVerified /\ last'.kind = "verify-later" /\ Expired) =>
              /\ last.call.jwt = "null"
              /\ last'.call.jwt = "null"
              /\ last'.call.http # "ok"
      ]_vars

\* A token presented exactly 5 seconds after its expiry, having been accepted
\* a second earlier, was denied.
C32_Witness ==
    /\ last.kind = "verify-later"
    /\ last.call.token = BearerJwt
    /\ jwt.exp = {now - clockTolerance} /\ jwt.nbf = {}
    /\ last.call.jwt = "null"
    /\ last.call.http # "ok"

-----------------------------------------------------------------------------
(* Claims about error reports                                              *)

\* The messages the servers write without the text of a caught error.
GenericMessages == {"Internal Error", "Internal server error", "Tool execution failed"}

\* C33: a call that ends with InternalError carries a generic message, one
\* that does not hold the message of the error that was caught.
C33_InternalErrorIsGeneric ==
    (last.kind = "stdio-call" /\ last.call.code = "InternalError") =>
        /\ last.call.message \in GenericMessages
        /\ last.call.message # "Tool execution failed: " \o TypeErrorMessage

-----------------------------------------------------------------------------
(* Claims about the arguments of the cipher                                *)

-----------------------------------------------------------------------------
(* Further claims about the session registry                               *)

\* The step handles a tool call, a request the POST route rejects, or a GET.
LeavesRegistry ==
    \/ last'.kind = "POST" /\ last'.body = "tools/call"
    \/ RejectedPost
    \/ last'.kind = "GET"

\* C34: every key of the map holds an initialized, open transport whose
\* session id is the key; every initialized, open transport is resolvable
\* under its session id; an entry appears only in the step in which an
\* initialize POST without session id completes, and an entry disappears or
\* changes only by the close of the transport it held; tool calls, rejected
\* requests and GETs leave the map as it is.
C34_RegistryHoldsOpenSessions ==
    /\ [](\A k \in SessionIds :
            transports[k] # 0 =>
               (tr[transports[k]].status = "open" /\ tr[transports[k]].sessionId = k))
    /\ [](\A t \in Transports :
            tr[t].status = "open" => transports[tr[t].sessionId] = t)
    /\ [][ /\ \A k \in SessionIds :
                /\ (transports[k] = 0 /\ transports'[k] # 0) =>
                      /\ last'.kind = "POST" /\ last'.sessionId = 0 /\ last'.body = "initialize"
                      /\ last'.transport = transports'[k]
                /\ (transports[k] # 0 /\ transports'[k] # transports[k]) =>
                      /\ transports'[k] = 0
                      /\ tr[transports[k]].status = "open"
                      /\ tr'[transports[k]].status = "closed"
           /\ LeavesRegistry => transports' = transports ]_vars

-----------------------------------------------------------------------------
(* Claims that compare the gates and the modes                             *)

\* C35: for every mode and every credential string given in band, the gate
\* of the HTTP server lets the call through exactly when the gate of the
\* stdio server does.
C35_GatesAgree ==
    Decided => (last.call.http = "ok" <=> last.call.stdio = "ok")

\* The modes weaker than a mode: open (authless) below permissive (debug)
\* below dual (test) below strict (production).
WeakerModes(mode) ==
    CASE mode = "production" -> {"test", "debug", "authless"}
      [] mode = "test"       -> {"debug", "authless"}
      [] mode = "debug"      -> {"authless"}
      [] OTHER               -> {}

\* C37: with the same configuration, time and credential, whatever a mode
\* lets through is let through by every weaker mode: by both gates, and by
\* verifyAuthorizationHeader.
C37_ModesOrdered ==
    (last.kind = "authorize-in-mode" /\ env.AUTH_MODE \in WeakerModes(last.call.from)) =>
        /\ last.call.before.http = "ok" => last.call.after.http = "ok"
        /\ last.call.before.stdio = "ok" => last.call.after.stdio = "ok"
        /\ Truthy(last.call.before.header) => Truthy(last.call.after.header)

\* A signed token let through in production mode was let through in test
\* mode, where another credential is let through that production denied.
C37_Witness ==
    /\ last.kind = "authorize-in-mode"
    /\ last.call.from = "production" /\ env.AUTH_MODE = "test"
    /\ last.call.token = BearerJwt
    /\ last.call.before.http = "ok" /\ last.call.after.http = "ok"
    /\ last.call.before.stdio = "ok" /\ last.call.after.stdio = "ok"

-----------------------------------------------------------------------------
(* Claims about authorization and sessions                                 *)

\* The step handles an initialize POST that carries no session id.
CreatesSession ==
    last'.kind = "POST" /\ last'.sessionId = 0 /\ last'.body = "initialize"

\* C38: in every mode an initialize POST without session id is never
\* answered with a denial: it creates a transport, and when it completes
\* the session is registered; no route reports Unauthorized; the gate is
\* evaluated, and the record of the session that passed it last changes,
\* only in a step that executes a tool call in a session resolved from the
\* map.
C38_SessionsNeedNoCredential ==
    [][ /\ CreatesSession =>
              /\ last'.message = "none"
              /\ last'.call = NoCall
              /\ last'.status = 0 => \E t \in Transports :
                                        tr[t].status = "none" /\ tr'[t].status = "connecting"
              /\ last'.status # 0 =>
                    /\ last'.status = 200
                    /\ tr'[last'.transport].status = "open"
                    /\ transports'[tr'[last'.transport].sessionId] = last'.transport
        /\ last'.message \notin UnauthorizedMessages
        /\ (last'.call # NoCall \/ authorized' # authorized) =>
              /\ last'.kind = "POST" /\ last'.body = "tools/call"
              /\ hasSession(last'.sessionId)
              /\ last'.transport = transports[last'.sessionId]
              /\ last'.call # NoCall
      ]_vars

\* In production mode a session was registered although no call has passed
\* the gate.
C38_Witness ==
    /\ env.AUTH_MODE = "production"
    /\ last.kind = "POST" /\ last.sessionId = 0 /\ last.body = "initialize"
    /\ last.status = 200
    /\ transports[tr[last.transport].sessionId] = last.transport
    /\ authorized = 0

====
